---- MODULE Spec2Model ----
(***************************************************************************)
(* Index lifecycle and dual-store consistency layer of the vector search   *)
(* service: the VectorIndex handle over the native SPFresh engine          *)
(* (src/src/storage/spfresh.rs), the archive on disk, the metadata log     *)
(* and the add-review / search request handlers that run concurrently      *)
(* under one tokio RwLock (src/src/api/review/handlers.rs,                 *)
(* src/src/api/search/handlers.rs).                                        *)
(*                                                                         *)
(* The specifications share the variables:                                 *)
(*   SpecHandle     one VectorIndex driven through its public API by a     *)
(*                  single owner (&mut self), with every native outcome    *)
(*                  chosen nondeterministically;                           *)
(*   SpecRoundTrip  the same, with the save / load round trip observed;    *)
(*   Spec           the running service: request tasks interleaving on the *)
(*                  shared handle and the metadata log, and main from the  *)
(*                  shutdown signal to its return (src/src/main.rs);       *)
(*   SpecSequential the service with add-review requests one at a time;    *)
(*   SpecRestart    the process from its start, killed and started again   *)
(*                  over the files the previous run left;                  *)
(*   SpecLive       Spec with the request tasks scheduled fairly.          *)
(***************************************************************************)
EXTENDS Integers, Sequences, FiniteSets, TLC

VARIABLES
    index_type,     \* VectorIndex.index_type
    vector_dim,     \* VectorIndex.vector_dim
    index_ptr,      \* VectorIndex.index_ptr (NULL or a native handle)
    vector_count,   \* VectorIndex.vector_count
    dropped,        \* the VectorIndex value has been dropped
    nat,            \* native engine heap: handle -> [st, dim, vecs]
    archive,        \* file system: archive path -> contents
    staging,        \* file system: archive path -> its .tmp directory exists
    last,           \* last API call on the handle: [op, err, warn]
    hist,           \* ghost: "new" | "fresh" | "used" (see Track)
    addLog,         \* ghost: IDs returned by the successful add_vector calls
    trip,           \* ghost: the save / load round trip in progress (see Trip)
    lock,           \* RwLock<VectorIndex>: [writers, readers]
    pc,             \* request task -> position in its handler
    req,            \* request task -> the request it carries
    vid,            \* request task -> local vector_id
    sid,            \* request task -> local stored_id
    hits,           \* request task -> local search_results
    resp,           \* request task -> response sent
    log,            \* metadata log (JSONL lines)
    main            \* main: [pc, index_path, saves, exit, ..]

hvars == <<index_type, vector_dim, index_ptr, vector_count, dropped>>
fvars == <<archive, staging>>
gvars == <<last, hist, addLog, trip>>
svars == <<lock, pc, req, vid, sid, hits, resp, log, main>>
vars  == <<hvars, nat, fvars, gvars, svars>>

----------------------------------------------------------------------------
(* Bounds of the model *)

MaxHandles == 2      \* native handles the engine can allocate
MaxVectors == 2      \* vectors held by one native index
MaxCount   == 2      \* largest cached vector_count
MaxK       == 2      \* largest k passed to search
NReq       == 2      \* request tasks in flight
MaxRestarts == 1     \* times the process is started again

(* Program constants *)

NULL == 0            \* std::ptr::null_mut()

Dims       == {1, 2}             \* vector dimensions in play
Tags       == {0, 1}             \* component values
IndexTypes == {"BKT"}            \* configured algorithm
HardPath   == "data/reviews.index"
Paths      == {HardPath}

Handles == 1..MaxHandles

Vec(n, t) == [i \in 1..n |-> t]
Vectors   == {Vec(n, t) : n \in Dims, t \in Tags}

SeqsUpTo(S, n) == UNION {[1..m -> S] : m \in 0..n}

Min(a, b) == IF a <= b THEN a ELSE b

----------------------------------------------------------------------------
(* The native engine behind the FFI (spfresh_wrapper).  A handle address is *)
(* free (never allocated, or destroyed and reusable), live, or misused      *)
(* (destroyed while not live, or used while not live).                      *)

FreeHandles(n) == {p \in Handles : n[p].st = "free"}

NextHandle(n) == CHOOSE p \in FreeHandles(n) : \A q \in FreeHandles(n) : p <= q

EmptyNative == [st |-> "free", dim |-> 0, vecs |-> <<>>]

\* contents of an archive file: none, an unreadable one, or a folder snapshot
Absent  == [kind |-> "absent", dim |-> 0, vecs |-> <<>>]
Corrupt == [kind |-> "corrupt", dim |-> 0, vecs |-> <<>>]

Live(n, p) == p # NULL /\ n[p].st = "live"

\* a native call on a handle that is not live is a use after destruction
Touch(n, p) ==
    IF Live(n, p) THEN n ELSE [n EXCEPT ![p].st = "misused"]

\* spfresh_create_index: a new empty index, or NULL
spfresh_create_index(n, dim, ok) ==
    IF ok /\ FreeHandles(n) # {}
    THEN [ptr |-> NextHandle(n),
          nat |-> [n EXCEPT ![NextHandle(n)] =
                      [st |-> "live", dim |-> dim, vecs |-> <<>>]]]
    ELSE [ptr |-> NULL, nat |-> n]

\* spfresh_add_vector: the ID is the number of vectors already held, or -1
spfresh_add_vector(n, p, v, ok) ==
    IF ok /\ Live(n, p)
    THEN [ret |-> Len(n[p].vecs),
          nat |-> [n EXCEPT ![p].vecs = Append(@, v)]]
    ELSE [ret |-> -1, nat |-> Touch(n, p)]

\* spfresh_build_index: replaces the contents, 0 on success
spfresh_build_index(n, p, vs, ok) ==
    IF ok /\ Live(n, p)
    THEN [ret |-> 0, nat |-> [n EXCEPT ![p].vecs = vs]]
    ELSE [ret |-> 1, nat |-> Touch(n, p)]

RECURSIVE SqL2(_, _)
SqL2(a, b) ==
    IF a = <<>> \/ b = <<>> THEN 0
    ELSE (Head(a) - Head(b)) * (Head(a) - Head(b)) + SqL2(Tail(a), Tail(b))

\* position of vector i (1-based) in ascending (distance, id) order
Rank(vs, q, i) ==
    Cardinality({j \in 1..Len(vs) :
        \/ SqL2(vs[j], q) < SqL2(vs[i], q)
        \/ SqL2(vs[j], q) = SqL2(vs[i], q) /\ j < i}) + 1

Nearest(vs, q, k) ==
    [pos \in 1..Min(k, Len(vs)) |->
        LET i == CHOOSE j \in 1..Len(vs) : Rank(vs, q, j) = pos
        IN  [vector_id |-> i - 1, distance |-> SqL2(vs[i], q)]]

\* spfresh_search: the count of results written (<= k), or -1
spfresh_search(n, p, q, k, ok) ==
    IF ok /\ Live(n, p)
    THEN [ret |-> Min(k, Len(n[p].vecs)), out |-> Nearest(n[p].vecs, q, k),
          nat |-> n]
    ELSE [ret |-> -1, out |-> <<>>, nat |-> Touch(n, p)]

\* spfresh_save_index: the folder snapshot, 0 on success
spfresh_save_index(n, p, ok) ==
    IF ok /\ Live(n, p)
    THEN [ret |-> 0,
          folder |-> [kind |-> "index", dim |-> n[p].dim, vecs |-> n[p].vecs],
          nat |-> n]
    ELSE [ret |-> 1, folder |-> Absent, nat |-> Touch(n, p)]

\* spfresh_load_index: a new index holding the folder's snapshot, or NULL
spfresh_load_index(n, folder, ok) ==
    IF ok /\ FreeHandles(n) # {}
    THEN [ptr |-> NextHandle(n),
          nat |-> [n EXCEPT ![NextHandle(n)] =
                      [st |-> "live", dim |-> folder.dim, vecs |-> folder.vecs]]]
    ELSE [ptr |-> NULL, nat |-> n]

spfresh_get_num_vectors(n, p) == IF Live(n, p) THEN Len(n[p].vecs) ELSE -1

spfresh_get_dimension(n, p) == IF Live(n, p) THEN n[p].dim ELSE -1

\* spfresh_destroy_index: releases a live handle; its contents are gone
spfresh_destroy_index(n, p) ==
    IF Live(n, p)
    THEN [n EXCEPT ![p] = EmptyNative]
    ELSE [n EXCEPT ![p].st = "misused"]

----------------------------------------------------------------------------
(* VectorIndex (src/src/storage/spfresh.rs).  Each method is an operator    *)
(* from the current state and the native outcomes to the record of what the *)
(* call returns and leaves behind: err ("" is Ok), the returned id / search *)
(* results, the number of native calls made, and the new fields, native     *)
(* heap and files.                                                          *)

Res0 ==
    [err |-> "", id |-> -1, out |-> <<>>, calls |-> 0, warn |-> FALSE,
     ptr |-> index_ptr, dim |-> vector_dim, count |-> vector_count,
     nat |-> nat, archive |-> archive, staging |-> staging]

\* number of set_param calls made by initialize
NumParams ==
    IF index_type = "BKT" THEN 4 ELSE IF index_type = "KDT" THEN 3 ELSE 2

\* variant: a set_parameter failure is returned as an error
initialize_param_fatal(createOk, paramOk) ==
    LET c == spfresh_create_index(nat, vector_dim, createOk)
    IN  IF c.ptr = NULL
        THEN [Res0 EXCEPT !.err = "InitFailed", !.ptr = NULL, !.calls = 1,
                          !.nat = c.nat]
        ELSE IF ~paramOk
        THEN [Res0 EXCEPT !.err = "InitFailed", !.ptr = c.ptr, !.calls = 2,
                          !.nat = c.nat]
        ELSE [Res0 EXCEPT !.ptr = c.ptr, !.calls = 1 + NumParams,
                          !.nat = c.nat]

initialize(createOk, paramOk) ==
    LET c == spfresh_create_index(nat, vector_dim, createOk)
    IN  IF c.ptr = NULL
        THEN [Res0 EXCEPT !.err = "InitFailed", !.ptr = NULL, !.calls = 1,
                          !.nat = c.nat]
        ELSE [Res0 EXCEPT !.ptr = c.ptr, !.calls = 1 + NumParams,
                          !.warn = ~paramOk, !.nat = c.nat]

\* variant: the cached count after the increment is returned as the ID
add_vector_returns_count(v, ok) ==
    IF Len(v) # vector_dim
    THEN [Res0 EXCEPT !.err = "DimensionMismatch"]
    ELSE IF index_ptr = NULL
    THEN [Res0 EXCEPT !.err = "NotInitialized"]
    ELSE LET a == spfresh_add_vector(nat, index_ptr, v, ok)
         IN  IF a.ret < 0
             THEN [Res0 EXCEPT !.err = "AddFailed", !.calls = 1, !.nat = a.nat]
             ELSE [Res0 EXCEPT !.id = vector_count + 1,
                               !.count = vector_count + 1,
                               !.calls = 1, !.nat = a.nat]

\* variant: the null check comes before the dimension check
add_vector_null_first(v, ok) ==
    IF index_ptr = NULL
    THEN [Res0 EXCEPT !.err = "NotInitialized"]
    ELSE IF Len(v) # vector_dim
    THEN [Res0 EXCEPT !.err = "DimensionMismatch"]
    ELSE LET a == spfresh_add_vector(nat, index_ptr, v, ok)
         IN  IF a.ret < 0
             THEN [Res0 EXCEPT !.err = "AddFailed", !.calls = 1, !.nat = a.nat]
             ELSE [Res0 EXCEPT !.id = a.ret, !.count = vector_count + 1,
                               !.calls = 1, !.nat = a.nat]

add_vector(v, ok) ==
    IF Len(v) # vector_dim
    THEN [Res0 EXCEPT !.err = "DimensionMismatch"]
    ELSE IF index_ptr = NULL
    THEN [Res0 EXCEPT !.err = "NotInitialized"]
    ELSE LET a == spfresh_add_vector(nat, index_ptr, v, ok)
         IN  IF a.ret < 0
             THEN [Res0 EXCEPT !.err = "AddFailed", !.calls = 1, !.nat = a.nat]
             ELSE [Res0 EXCEPT !.id = a.ret, !.count = vector_count + 1,
                               !.calls = 1, !.nat = a.nat]

\* variant: only the first vector's dimension is validated
build_from_vectors_checks_first(vs, ok) ==
    IF vs = <<>>
    THEN Res0
    ELSE IF index_ptr = NULL
    THEN [Res0 EXCEPT !.err = "NotInitialized"]
    ELSE IF Len(vs[1]) # vector_dim
    THEN [Res0 EXCEPT !.err = "DimensionMismatch"]
    ELSE LET b == spfresh_build_index(nat, index_ptr, vs, ok)
         IN  IF b.ret # 0
             THEN [Res0 EXCEPT !.err = "BuildFailed", !.calls = 1, !.nat = b.nat]
             ELSE [Res0 EXCEPT !.count = Len(vs), !.calls = 1, !.nat = b.nat]

build_from_vectors(vs, ok) ==
    IF vs = <<>>
    THEN Res0
    ELSE IF index_ptr = NULL
    THEN [Res0 EXCEPT !.err = "NotInitialized"]
    ELSE IF \E i \in 1..Len(vs) : Len(vs[i]) # vector_dim
    THEN [Res0 EXCEPT !.err = "DimensionMismatch"]
    ELSE LET b == spfresh_build_index(nat, index_ptr, vs, ok)
         IN  IF b.ret # 0
             THEN [Res0 EXCEPT !.err = "BuildFailed", !.calls = 1, !.nat = b.nat]
             ELSE [Res0 EXCEPT !.count = Len(vs), !.calls = 1, !.nat = b.nat]

\* variant: a search on a handle without an index finds nothing
search_null_is_empty(q, k, ok) ==
    IF Len(q) # vector_dim
    THEN [Res0 EXCEPT !.err = "DimensionMismatch"]
    ELSE IF index_ptr = NULL
    THEN Res0
    ELSE LET s == spfresh_search(nat, index_ptr, q, k, ok)
         IN  IF s.ret < 0
             THEN [Res0 EXCEPT !.err = "SearchFailed", !.calls = 1, !.nat = s.nat]
             ELSE [Res0 EXCEPT !.out = SubSeq(s.out, 1, s.ret), !.calls = 1,
                               !.nat = s.nat]

\* variant: search refreshes the cached count from the native index
search_refreshes_count(q, k, ok) ==
    IF Len(q) # vector_dim
    THEN [Res0 EXCEPT !.err = "DimensionMismatch"]
    ELSE IF index_ptr = NULL
    THEN [Res0 EXCEPT !.err = "NotInitialized"]
    ELSE LET s == spfresh_search(nat, index_ptr, q, k, ok)
         IN  IF s.ret < 0
             THEN [Res0 EXCEPT !.err = "SearchFailed", !.calls = 1, !.nat = s.nat,
                               !.count = s.ret]
             ELSE [Res0 EXCEPT !.out = SubSeq(s.out, 1, s.ret), !.calls = 1,
                               !.nat = s.nat, !.count = s.ret]

search(q, k, ok) ==
    IF Len(q) # vector_dim
    THEN [Res0 EXCEPT !.err = "DimensionMismatch"]
    ELSE IF index_ptr = NULL
    THEN [Res0 EXCEPT !.err = "NotInitialized"]
    ELSE LET s == spfresh_search(nat, index_ptr, q, k, ok)
         IN  IF s.ret < 0
             THEN [Res0 EXCEPT !.err = "SearchFailed", !.calls = 1, !.nat = s.nat]
             ELSE [Res0 EXCEPT !.out = SubSeq(s.out, 1, s.ret), !.calls = 1,
                               !.nat = s.nat]

\* variant: the archive file is created before the native save
save_creates_archive_first(path, ok) ==
    IF index_ptr = NULL
    THEN [Res0 EXCEPT !.err = "NotInitialized"]
    ELSE LET s == spfresh_save_index(nat, index_ptr, ok)
         IN  IF s.ret # 0
             THEN [Res0 EXCEPT !.err = "SaveFailed", !.calls = 1, !.nat = s.nat,
                               !.archive = [archive EXCEPT ![path] = Corrupt],
                               !.staging = [staging EXCEPT ![path] = FALSE]]
             ELSE [Res0 EXCEPT !.calls = 1, !.nat = s.nat,
                               !.archive = [archive EXCEPT ![path] = s.folder],
                               !.staging = [staging EXCEPT ![path] = FALSE]]

save(path, ok) ==
    IF index_ptr = NULL
    THEN [Res0 EXCEPT !.err = "NotInitialized"]
    ELSE LET s == spfresh_save_index(nat, index_ptr, ok)
         IN  IF s.ret # 0
             THEN [Res0 EXCEPT !.err = "SaveFailed", !.calls = 1, !.nat = s.nat,
                               !.staging = [staging EXCEPT ![path] = FALSE]]
             ELSE [Res0 EXCEPT !.calls = 1, !.nat = s.nat,
                               !.archive = [archive EXCEPT ![path] = s.folder],
                               !.staging = [staging EXCEPT ![path] = FALSE]]

\* variant: the old index is destroyed before the new one is loaded
load_destroys_first(path, ok) ==
    IF archive[path].kind = "absent"
    THEN [Res0 EXCEPT !.err = "NotFound"]
    ELSE IF archive[path].kind = "corrupt"
    THEN [Res0 EXCEPT !.err = "ExtractFailed",
                      !.staging = [staging EXCEPT ![path] = TRUE]]
    ELSE LET n0 == IF index_ptr # NULL
                   THEN spfresh_destroy_index(nat, index_ptr) ELSE nat
             l == spfresh_load_index(n0, archive[path], ok)
         IN  IF l.ptr = NULL
             THEN [Res0 EXCEPT !.err = "LoadFailed", !.calls = 2, !.nat = n0,
                               !.staging = [staging EXCEPT ![path] = FALSE]]
             ELSE [Res0 EXCEPT
                      !.ptr = l.ptr,
                      !.nat = l.nat,
                      !.calls = 4,
                      !.count = spfresh_get_num_vectors(l.nat, l.ptr),
                      !.dim = spfresh_get_dimension(l.nat, l.ptr),
                      !.staging = [staging EXCEPT ![path] = FALSE]]

\* variant: the configured dimension is kept after a load
load_keeps_dim(path, ok) ==
    IF archive[path].kind = "absent"
    THEN [Res0 EXCEPT !.err = "NotFound"]
    ELSE IF archive[path].kind = "corrupt"
    THEN [Res0 EXCEPT !.err = "ExtractFailed",
                      !.staging = [staging EXCEPT ![path] = TRUE]]
    ELSE LET l == spfresh_load_index(nat, archive[path], ok)
         IN  IF l.ptr = NULL
             THEN [Res0 EXCEPT !.err = "LoadFailed", !.calls = 1,
                               !.staging = [staging EXCEPT ![path] = FALSE]]
             ELSE LET n1 == IF index_ptr # NULL
                            THEN spfresh_destroy_index(l.nat, index_ptr)
                            ELSE l.nat
                      num_vectors == spfresh_get_num_vectors(n1, l.ptr)
                      dimension   == spfresh_get_dimension(n1, l.ptr)
                  IN  [Res0 EXCEPT
                          !.ptr = l.ptr,
                          !.nat = n1,
                          !.calls = IF index_ptr # NULL THEN 4 ELSE 3,
                          !.count = IF num_vectors >= 0 THEN num_vectors
                                    ELSE vector_count,
                          !.warn = dimension >= 0 /\ dimension # vector_dim,
                          !.staging = [staging EXCEPT ![path] = FALSE]]

\* variant: the cached count is not refreshed from the loaded index
load_keeps_count(path, ok) ==
    IF archive[path].kind = "absent"
    THEN [Res0 EXCEPT !.err = "NotFound"]
    ELSE IF archive[path].kind = "corrupt"
    THEN [Res0 EXCEPT !.err = "ExtractFailed",
                      !.staging = [staging EXCEPT ![path] = TRUE]]
    ELSE LET l == spfresh_load_index(nat, archive[path], ok)
         IN  IF l.ptr = NULL
             THEN [Res0 EXCEPT !.err = "LoadFailed", !.calls = 1,
                               !.staging = [staging EXCEPT ![path] = FALSE]]
             ELSE LET n1 == IF index_ptr # NULL
                            THEN spfresh_destroy_index(l.nat, index_ptr)
                            ELSE l.nat
                      dimension == spfresh_get_dimension(n1, l.ptr)
                  IN  [Res0 EXCEPT
                          !.ptr = l.ptr,
                          !.nat = n1,
                          !.calls = IF index_ptr # NULL THEN 4 ELSE 3,
                          !.dim = IF dimension >= 0 /\ dimension # vector_dim
                                  THEN dimension ELSE vector_dim,
                          !.warn = dimension >= 0 /\ dimension # vector_dim,
                          !.staging = [staging EXCEPT ![path] = FALSE]]

load(path, ok) ==
    IF archive[path].kind = "absent"
    THEN [Res0 EXCEPT !.err = "NotFound"]
    ELSE IF archive[path].kind = "corrupt"
    THEN \* tar.unpack(&temp_dir)? returns with the directory in place
         [Res0 EXCEPT !.err = "ExtractFailed",
                      !.staging = [staging EXCEPT ![path] = TRUE]]
    ELSE LET l == spfresh_load_index(nat, archive[path], ok)
         IN  IF l.ptr = NULL
             THEN [Res0 EXCEPT !.err = "LoadFailed", !.calls = 1,
                               !.staging = [staging EXCEPT ![path] = FALSE]]
             ELSE LET n1 == IF index_ptr # NULL
                            THEN spfresh_destroy_index(l.nat, index_ptr)
                            ELSE l.nat
                      num_vectors == spfresh_get_num_vectors(n1, l.ptr)
                      dimension   == spfresh_get_dimension(n1, l.ptr)
                  IN  [Res0 EXCEPT
                          !.ptr = l.ptr,
                          !.nat = n1,
                          !.calls = IF index_ptr # NULL THEN 4 ELSE 3,
                          !.count = IF num_vectors >= 0 THEN num_vectors
                                    ELSE vector_count,
                          !.dim = IF dimension >= 0 /\ dimension # vector_dim
                                  THEN dimension ELSE vector_dim,
                          !.warn = dimension >= 0 /\ dimension # vector_dim,
                          !.staging = [staging EXCEPT ![path] = FALSE]]

\* impl Drop for VectorIndex
drop ==
    IF index_ptr # NULL
    THEN [Res0 EXCEPT !.calls = 1,
                      !.nat = spfresh_destroy_index(nat, index_ptr)]
    ELSE Res0

\* the state a call leaves behind
Commit(r) ==
    /\ index_ptr' = r.ptr
    /\ vector_dim' = r.dim
    /\ vector_count' = r.count
    /\ nat' = r.nat
    /\ archive' = r.archive
    /\ staging' = r.staging

Outcome(op, r) ==
    [op |-> op, err |-> r.err, warn |-> r.warn]

----------------------------------------------------------------------------
(* One handle driven through its API by a single owner.                     *)

NoRequest == [kind |-> "none"]

NoResponse == [code |-> 0]

\* main while axum::serve runs, with config.storage.index_path
Serving(path) ==
    [pc |-> "serving", index_path |-> path, saves |-> 0, exit |-> "running"]

\* VectorIndex::new
NoOutcome == [op |-> "new", err |-> "", warn |-> FALSE]

\* what a search for q with the largest k returns in the current state
Probe(q) ==
    LET s == search(q, MaxK, TRUE)
    IN  [err |-> s.err, ids |-> [i \in 1..Len(s.out) |-> s.out[i].vector_id]]

NoTrip ==
    [stage |-> "none", path |-> "", count |-> 0,
     probes |-> [q \in Vectors |-> [err |-> "", ids |-> <<>>]]]

\* the ghost is recorded only under SpecRoundTrip
Untracked == [NoTrip EXCEPT !.stage = "off"]

\* no request has arrived and nobody holds the lock
IdleTasks ==
    /\ lock = [writers |-> {}, readers |-> {}]
    /\ pc = [r \in 1..NReq |-> "idle"]
    /\ req = [r \in 1..NReq |-> NoRequest]
    /\ vid = [r \in 1..NReq |-> -1]
    /\ sid = [r \in 1..NReq |-> -1]
    /\ hits = [r \in 1..NReq |-> <<>>]
    /\ resp = [r \in 1..NReq |-> NoResponse]

IdleService ==
    /\ IdleTasks
    /\ log = <<>>
    /\ main \in {Serving(path) : path \in Paths}

NewHandle ==
    /\ index_type \in IndexTypes
    /\ vector_dim \in Dims
    /\ index_ptr = NULL
    /\ vector_count = 0
    /\ dropped = FALSE
    /\ nat = [p \in Handles |-> EmptyNative]
    /\ archive = [f \in Paths |-> Absent]
    /\ staging = [f \in Paths |-> FALSE]
    /\ last = NoOutcome
    /\ hist = "new"
    /\ addLog = <<>>
    /\ IdleService

InitHandle == NewHandle /\ trip = Untracked

\* ghost: a handle is "fresh" from its first successful initialize until a
\* load replaces the index, a build reaches the engine or it is initialized
\* again; addLog collects the IDs its add_vector calls return
Track(op, r) ==
    /\ hist' = CASE op = "initialize" /\ hist = "new" ->
                        IF r.err = "" THEN "fresh" ELSE "new"
                 [] op = "initialize" -> "used"
                 [] op = "load" /\ r.err = "" -> "used"
                 [] op = "build_from_vectors" /\ r.calls > 0 -> "used"
                 [] OTHER -> hist
    /\ addLog' = IF hist' # "fresh" THEN <<>>
                 ELSE IF op = "add_vector" /\ r.err = ""
                 THEN Append(addLog, r.id) ELSE addLog

\* ghost: a fresh handle (successful adds only) that saves to path records
\* its vector_count() and its answers to the probe queries; the trip is
\* "loaded" while a handle that was fresh, initialized and empty holds what
\* it loaded from that file, and "saved" again once that handle changes
Trip(op, path, r) ==
    trip' =
        CASE trip.stage = "off" -> trip
          [] op = "save" /\ r.err = "" ->
                 IF hist = "fresh"
                 THEN [stage |-> "saved", path |-> path, count |-> vector_count,
                       probes |-> [q \in Vectors |-> Probe(q)]]
                 ELSE IF trip.path = path THEN NoTrip ELSE trip
          [] op = "load" /\ r.err = "" /\ trip.stage = "saved"
                 /\ trip.path = path /\ hist = "fresh" /\ addLog = <<>> ->
                 [trip EXCEPT !.stage = "loaded"]
          [] trip.stage = "loaded"
                 /\ <<r.ptr, r.dim, r.count, r.nat>>
                        # <<index_ptr, vector_dim, vector_count, nat>> ->
                 [trip EXCEPT !.stage = "saved"]
          [] OTHER -> trip

CallFile(op, path, r) ==
    /\ ~dropped
    /\ Commit(r)
    /\ last' = Outcome(op, r)
    /\ Track(op, r)
    /\ Trip(op, path, r)
    /\ UNCHANGED <<index_type, dropped, svars>>

Call(op, r) == CallFile(op, "", r)

Full ==
    \/ vector_count >= MaxCount
    \/ index_ptr # NULL /\ Live(nat, index_ptr)
           /\ Len(nat[index_ptr].vecs) >= MaxVectors

HNew ==
    /\ dropped
    /\ index_type' \in IndexTypes
    /\ vector_dim' \in Dims
    /\ index_ptr' = NULL
    /\ vector_count' = 0
    /\ dropped' = FALSE
    /\ last' = NoOutcome
    /\ hist' = "new"
    /\ addLog' = <<>>
    /\ UNCHANGED <<nat, fvars, trip, svars>>

HInitialize ==
    \E createOk \in BOOLEAN, paramOk \in BOOLEAN :
        Call("initialize", initialize(createOk, paramOk))

HAddVector ==
    \E v \in Vectors, ok \in BOOLEAN :
        /\ ~Full
        /\ Call("add_vector", add_vector(v, ok))

HBuild ==
    \E vs \in SeqsUpTo(Vectors, MaxVectors), ok \in BOOLEAN :
        Call("build_from_vectors", build_from_vectors(vs, ok))

HSearch ==
    \E q \in Vectors, k \in 0..MaxK, ok \in BOOLEAN :
        Call("search", search(q, k, ok))

HSave ==
    \E path \in Paths, ok \in BOOLEAN : CallFile("save", path, save(path, ok))

HLoad ==
    \E path \in Paths, ok \in BOOLEAN : CallFile("load", path, load(path, ok))

HDrop ==
    /\ ~dropped
    /\ Commit(drop)
    /\ dropped' = TRUE
    /\ last' = Outcome("drop", drop)
    /\ Trip("drop", "", drop)
    /\ UNCHANGED <<index_type, hist, addLog, svars>>

\* the archive file is damaged on disk (truncated write, flipped trailer)
HCorrupt ==
    \E path \in Paths :
        /\ archive[path].kind = "index"
        /\ archive' = [archive EXCEPT ![path] = Corrupt]
        /\ trip' = IF trip.path = path THEN NoTrip ELSE trip
        /\ UNCHANGED <<hvars, nat, staging, last, hist, addLog, svars>>

NextHandleApi ==
    \/ HNew
    \/ HInitialize
    \/ HAddVector
    \/ HBuild
    \/ HSearch
    \/ HSave
    \/ HLoad
    \/ HDrop
    \/ HCorrupt

SpecHandle == InitHandle /\ [][NextHandleApi]_vars

\* the same handle with the round-trip ghost recorded
InitRoundTrip == NewHandle /\ trip = NoTrip

SpecRoundTrip == InitRoundTrip /\ [][NextHandleApi]_vars

----------------------------------------------------------------------------
(* Requests, the embedding service and the metadata log.                    *)

Reqs == 1..NReq

EmbDim  == 2         \* output dimension of the embedding model
MaxTopK == 100       \* SearchRequest::validate

\* str::trim().is_empty() on the strings of the model
IsBlank(s) == s \in {"", " "}

AddRequest(t, b, p, g) ==
    [kind |-> "add", review_title |-> t, review_body |-> b, product_id |-> p,
     review_rating |-> g]

AddRequests ==
    {AddRequest(t, "body", "p1", 5) : t \in {"a", "b"}}
    \cup {AddRequest(" ", "body", "p1", 5), AddRequest("a", "", "p1", 5),
          AddRequest("a", "body", " ", 5), AddRequest("a", "body", "p1", 0),
          AddRequest("a", "body", "p1", 6)}

SearchRequest(q, k) == [kind |-> "search", query |-> q, top_k |-> k]

SearchRequests ==
    {SearchRequest(q, k) : q \in {"a", "b"}, k \in 1..MaxK}
    \cup {SearchRequest(" ", 1), SearchRequest("a", 0),
          SearchRequest("a", MaxTopK + 1)}

\* AddReviewRequest::validate: "" is Ok
validate_add(q) ==
    IF IsBlank(q.review_title) THEN "Review title cannot be empty"
    ELSE IF IsBlank(q.review_body) THEN "Review body cannot be empty"
    ELSE IF IsBlank(q.product_id) THEN "Product ID cannot be empty"
    ELSE IF q.review_rating < 1 \/ q.review_rating > 5
    THEN "Review rating must be between 1 and 5"
    ELSE ""

\* SearchRequest::validate: "" is Ok
validate_search(q) ==
    IF IsBlank(q.query) THEN "Query cannot be empty"
    ELSE IF q.top_k = 0 \/ q.top_k > MaxTopK
    THEN "top_k must be between 1 and 100"
    ELSE ""

\* EmbeddingService::prepare_review_text and ::embed: a deterministic vector
\* of the model's dimension
prepare_review_text(title, body) == title

embed(text) == Vec(EmbDim, IF text = "a" THEN 0 ELSE 1)

\* ReviewMetadata built by the handler; task is the submitting request task
ReviewMetadata(r, q) ==
    [task |-> r, review_title |-> q.review_title,
     review_body |-> q.review_body, product_id |-> q.product_id,
     review_rating |-> q.review_rating]

\* JsonlStorage::count_lines
count_lines(lg) == Len(lg)

\* JsonlStorage::append: the 0-based ordinal of the new line
append(lg, m, ok) ==
    IF ok THEN [err |-> "", id |-> count_lines(lg), log |-> Append(lg, m)]
    ELSE [err |-> "Io", id |-> -1, log |-> lg]

\* JsonlStorage::read_batch: the lines at ids, in order, or RecordNotFound
read_batch(lg, ids) ==
    IF \E i \in 1..Len(ids) : ids[i] >= count_lines(lg)
    THEN [err |-> "RecordNotFound", out |-> <<>>]
    ELSE [err |-> "", out |-> [i \in 1..Len(ids) |-> lg[ids[i] + 1]]]

----------------------------------------------------------------------------
(* tokio::sync::RwLock<VectorIndex>                                         *)

CanWrite == lock.writers = {} /\ lock.readers = {}

CanRead == lock.writers = {}

Unlocked(r) == [writers |-> lock.writers \ {r}, readers |-> lock.readers \ {r}]

----------------------------------------------------------------------------
(* Request handlers.  Each action is one stretch of a handler between two   *)
(* points where other tasks can be observed: lock acquisition, the calls on *)
(* the handle under the lock, the metadata log call, the response.          *)

Goto(r, l) == pc' = [pc EXCEPT ![r] = l]

Reply(r, m) == resp' = [resp EXCEPT ![r] = m] /\ Goto(r, "done")

BadRequest(msg) == [code |-> 400, message |-> msg]

Internal(msg) == [code |-> 500, message |-> msg]

\* variant: the text is embedded before the request is validated
add_review_begin_embeds_first(r) ==
    /\ pc[r] = "idle"
    /\ \E q \in AddRequests, embedOk \in BOOLEAN :
        /\ req' = [req EXCEPT ![r] = q]
        /\ IF ~embedOk
           THEN Reply(r, Internal("Embedding failed"))
           ELSE IF validate_add(q) # ""
           THEN Reply(r, BadRequest(validate_add(q)))
           ELSE Goto(r, "write_lock") /\ UNCHANGED resp
    /\ UNCHANGED <<hvars, nat, fvars, gvars, lock, vid, sid, hits, log>>

\* add_review_handler: validate, embed
add_review_begin(r) ==
    /\ pc[r] = "idle"
    /\ \E q \in AddRequests, embedOk \in BOOLEAN :
        /\ req' = [req EXCEPT ![r] = q]
        /\ IF validate_add(q) # ""
           THEN Reply(r, BadRequest(validate_add(q)))
           ELSE IF ~embedOk
           THEN Reply(r, Internal("Embedding failed"))
           ELSE Goto(r, "write_lock") /\ UNCHANGED resp
    /\ UNCHANGED <<hvars, nat, fvars, gvars, lock, vid, sid, hits, log>>

\* state.vector_index.write().await
add_review_lock(r) ==
    /\ pc[r] = "write_lock"
    /\ CanWrite
    /\ lock' = [lock EXCEPT !.writers = {r}]
    /\ Goto(r, "add_vector")
    /\ UNCHANGED <<hvars, nat, fvars, gvars, req, vid, sid, hits, resp, log>>

\* variant: the write guard is dropped as soon as add_vector returns
add_review_add_vector_unlocks(r) ==
    /\ pc[r] = "add_vector"
    /\ \E ok \in BOOLEAN :
        LET text == prepare_review_text(req[r].review_title, req[r].review_body)
            a == add_vector(embed(text), ok)
        IN  /\ Commit(a)
            /\ lock' = Unlocked(r)
            /\ IF a.err = ""
               THEN /\ vid' = [vid EXCEPT ![r] = a.id]
                    /\ Goto(r, "save")
                    /\ UNCHANGED resp
               ELSE /\ Reply(r, Internal("Add vector failed"))
                    /\ UNCHANGED vid
    /\ UNCHANGED <<index_type, dropped, gvars, req, sid, hits, log>>

\* variant: a failed add_vector returns with the write guard still held
add_review_add_vector_error_keeps_guard(r) ==
    /\ pc[r] = "add_vector"
    /\ \E ok \in BOOLEAN :
        LET text == prepare_review_text(req[r].review_title, req[r].review_body)
            a == add_vector(embed(text), ok)
        IN  /\ Commit(a)
            /\ IF a.err = ""
               THEN /\ vid' = [vid EXCEPT ![r] = a.id]
                    /\ Goto(r, "save")
                    /\ UNCHANGED <<lock, resp>>
               ELSE /\ Reply(r, Internal("Add vector failed"))
                    /\ UNCHANGED <<lock, vid>>
    /\ UNCHANGED <<index_type, dropped, gvars, req, sid, hits, log>>

\* index.add_vector(&embedding) under the write guard
add_review_add_vector(r) ==
    /\ pc[r] = "add_vector"
    /\ \E ok \in BOOLEAN :
        LET text == prepare_review_text(req[r].review_title, req[r].review_body)
            a == add_vector(embed(text), ok)
        IN  /\ Commit(a)
            /\ IF a.err = ""
               THEN /\ vid' = [vid EXCEPT ![r] = a.id]
                    /\ Goto(r, "save")
                    /\ UNCHANGED <<lock, resp>>
               ELSE /\ lock' = Unlocked(r)
                    /\ Reply(r, Internal("Add vector failed"))
                    /\ UNCHANGED vid
    /\ UNCHANGED <<index_type, dropped, gvars, req, sid, hits, log>>

\* variant: a failed save takes the vector back out of the cached count
add_review_save_rolls_back(r) ==
    /\ pc[r] = "save"
    /\ \E ok \in BOOLEAN :
        LET s == save(HardPath, ok)
        IN  /\ Commit(IF s.err = "" THEN s
                      ELSE [s EXCEPT !.count = vector_count - 1])
            /\ lock' = Unlocked(r)
            /\ IF s.err = ""
               THEN Goto(r, "append") /\ UNCHANGED resp
               ELSE Reply(r, Internal("Save index failed"))
    /\ UNCHANGED <<index_type, dropped, gvars, req, vid, sid, hits, log>>

\* variant: the write guard is kept until the handler returns
add_review_save_keeps_guard(r) ==
    /\ pc[r] = "save"
    /\ \E ok \in BOOLEAN :
        LET s == save(HardPath, ok)
        IN  /\ Commit(s)
            /\ IF s.err = ""
               THEN Goto(r, "append") /\ UNCHANGED <<resp, lock>>
               ELSE Reply(r, Internal("Save index failed"))
                    /\ lock' = Unlocked(r)
    /\ UNCHANGED <<index_type, dropped, gvars, req, vid, sid, hits, log>>

\* index.save("data/reviews.index") under the same guard, which is then
\* dropped
add_review_save(r) ==
    /\ pc[r] = "save"
    /\ \E ok \in BOOLEAN :
        LET s == save(HardPath, ok)
        IN  /\ Commit(s)
            /\ lock' = Unlocked(r)
            /\ IF s.err = ""
               THEN Goto(r, "append") /\ UNCHANGED resp
               ELSE Reply(r, Internal("Save index failed"))
    /\ UNCHANGED <<index_type, dropped, gvars, req, vid, sid, hits, log>>

\* variant: the handler takes the 1-based line number as the stored ID
add_review_append_one_based(r) ==
    /\ pc[r] = "append"
    /\ \E ok \in BOOLEAN :
        LET m == append(log, ReviewMetadata(r, req[r]), ok)
        IN  /\ log' = m.log
            /\ IF m.err = ""
               THEN /\ sid' = [sid EXCEPT ![r] = m.id + 1]
                    /\ Goto(r, "respond")
                    /\ UNCHANGED resp
               ELSE /\ Reply(r, Internal("Store metadata failed"))
                    /\ UNCHANGED sid
    /\ UNCHANGED <<hvars, nat, fvars, gvars, lock, req, vid, hits>>

\* state.metadata_store.append(&metadata)
add_review_append(r) ==
    /\ pc[r] = "append"
    /\ \E ok \in BOOLEAN :
        LET m == append(log, ReviewMetadata(r, req[r]), ok)
        IN  /\ log' = m.log
            /\ IF m.err = ""
               THEN /\ sid' = [sid EXCEPT ![r] = m.id]
                    /\ Goto(r, "respond")
                    /\ UNCHANGED resp
               ELSE /\ Reply(r, Internal("Store metadata failed"))
                    /\ UNCHANGED sid
    /\ UNCHANGED <<hvars, nat, fvars, gvars, lock, req, vid, hits>>

\* variant: the response reports the metadata ordinal
add_review_respond_stored_id(r) ==
    /\ pc[r] = "respond"
    /\ Reply(r, [code |-> 200, vector_id |-> sid[r], status |-> "success",
                 mismatch_logged |-> (vid[r] # sid[r])])
    /\ UNCHANGED <<hvars, nat, fvars, gvars, lock, req, vid, sid, hits, log>>

\* the ID comparison and the response
add_review_respond(r) ==
    /\ pc[r] = "respond"
    /\ Reply(r, [code |-> 200, vector_id |-> vid[r], status |-> "success",
                 mismatch_logged |-> (vid[r] # sid[r])])
    /\ UNCHANGED <<hvars, nat, fvars, gvars, lock, req, vid, sid, hits, log>>

\* search_handler: validate, embed
search_begin(r) ==
    /\ pc[r] = "idle"
    /\ \E q \in SearchRequests, embedOk \in BOOLEAN :
        /\ req' = [req EXCEPT ![r] = q]
        /\ IF validate_search(q) # ""
           THEN Reply(r, BadRequest(validate_search(q)))
           ELSE IF ~embedOk
           THEN Reply(r, Internal("Embedding failed"))
           ELSE Goto(r, "read_lock") /\ UNCHANGED resp
    /\ UNCHANGED <<hvars, nat, fvars, gvars, lock, vid, sid, hits, log>>

\* state.vector_index.read().await
search_lock(r) ==
    /\ pc[r] = "read_lock"
    /\ CanRead
    /\ lock' = [lock EXCEPT !.readers = @ \cup {r}]
    /\ Goto(r, "search")
    /\ UNCHANGED <<hvars, nat, fvars, gvars, req, vid, sid, hits, resp, log>>

\* .search(&embedding, request.top_k) under the read guard, dropped at the
\* end of the statement
search_index(r) ==
    /\ pc[r] = "search"
    /\ \E ok \in BOOLEAN :
        LET s == search(embed(req[r].query), req[r].top_k, ok)
        IN  /\ Commit(s)
            /\ lock' = Unlocked(r)
            /\ IF s.err = ""
               THEN /\ hits' = [hits EXCEPT ![r] = s.out]
                    /\ Goto(r, "read_batch")
                    /\ UNCHANGED resp
               ELSE /\ Reply(r, Internal("Search failed"))
                    /\ UNCHANGED hits
    /\ UNCHANGED <<index_type, dropped, gvars, req, vid, sid, log>>

\* variant: IDs without a metadata line are left out of the response
search_read_batch_skips_missing(r) ==
    /\ pc[r] = "read_batch"
    /\ LET found == SelectSeq(hits[r],
                              LAMBDA h : h.vector_id < count_lines(log))
       IN  Reply(r, [code |-> 200,
                     results |-> [i \in 1..Len(found) |->
                         [vector_id |-> found[i].vector_id,
                          similarity_score |-> 1 - found[i].distance,
                          meta |-> log[found[i].vector_id + 1]]],
                     total_found |-> Len(found)])
    /\ UNCHANGED <<hvars, nat, fvars, gvars, lock, req, vid, sid, hits, log>>

\* variant: the response lists the hits farthest first
search_read_batch_reversed(r) ==
    /\ pc[r] = "read_batch"
    /\ LET n == Len(hits[r])
           back == [i \in 1..n |-> hits[r][n + 1 - i]]
           m == read_batch(log, [i \in 1..n |-> back[i].vector_id])
       IN  IF m.err # ""
           THEN Reply(r, Internal("Metadata read failed"))
           ELSE Reply(r, [code |-> 200,
                          results |-> [i \in 1..n |->
                              [vector_id |-> back[i].vector_id,
                               similarity_score |-> 1 - back[i].distance,
                               meta |-> m.out[i]]],
                          total_found |-> n])
    /\ UNCHANGED <<hvars, nat, fvars, gvars, lock, req, vid, sid, hits, log>>

\* metadata_store.read_batch(&vector_ids), the zip and the response
search_read_batch(r) ==
    /\ pc[r] = "read_batch"
    /\ LET vector_ids == [i \in 1..Len(hits[r]) |-> hits[r][i].vector_id]
           m == read_batch(log, vector_ids)
           n == Min(Len(hits[r]), Len(m.out))
       IN  IF m.err # ""
           THEN Reply(r, Internal("Metadata read failed"))
           ELSE Reply(r, [code |-> 200,
                          results |-> [i \in 1..n |->
                              [vector_id |-> hits[r][i].vector_id,
                               similarity_score |-> 1 - hits[r][i].distance,
                               meta |-> m.out[i]]],
                          total_found |-> n])
    /\ UNCHANGED <<hvars, nat, fvars, gvars, lock, req, vid, sid, hits, log>>

\* the state main reaches before serving: an initialized, empty index and an
\* empty metadata log
Init ==
    /\ index_type \in IndexTypes
    /\ vector_dim \in Dims
    /\ index_ptr = 1
    /\ vector_count = 0
    /\ dropped = FALSE
    /\ nat = [p \in Handles |->
                IF p = 1 THEN [st |-> "live", dim |-> vector_dim, vecs |-> <<>>]
                ELSE EmptyNative]
    /\ archive = [f \in Paths |-> Absent]
    /\ staging = [f \in Paths |-> FALSE]
    /\ last = NoOutcome
    /\ hist = "fresh"
    /\ addLog = <<>>
    /\ trip = Untracked
    /\ IdleService

\* main from the shutdown signal on (src/src/main.rs, lines 104-118)
MainTask == 0

Accepting == main.pc = "serving"

\* shutdown_signal() completes: the server stops accepting requests
shutdown_signal ==
    /\ main.pc = "serving"
    /\ main' = [main EXCEPT !.pc = "draining"]
    /\ UNCHANGED <<hvars, nat, fvars, gvars, lock, pc, req, vid, sid, hits,
                   resp, log>>

\* axum::serve(..).with_graceful_shutdown(..).await returns once the
\* requests in flight have been answered
serve_returns ==
    /\ main.pc = "draining"
    /\ \A r \in Reqs : pc[r] \in {"idle", "done"}
    /\ main' = [main EXCEPT !.pc = "read_lock"]
    /\ UNCHANGED <<hvars, nat, fvars, gvars, lock, pc, req, vid, sid, hits,
                   resp, log>>

\* vector_index.read().await
shutdown_lock ==
    /\ main.pc = "read_lock"
    /\ CanRead
    /\ lock' = [lock EXCEPT !.readers = @ \cup {MainTask}]
    /\ main' = [main EXCEPT !.pc = "save"]
    /\ UNCHANGED <<hvars, nat, fvars, gvars, pc, req, vid, sid, hits, resp,
                   log>>

\* .save(&index_path).is_ok() under the read guard, dropped at the end of
\* the condition; either outcome is only logged
shutdown_save ==
    /\ main.pc = "save"
    /\ \E ok \in BOOLEAN :
        LET s == save(main.index_path, ok)
        IN  /\ Commit(s)
            /\ lock' = Unlocked(MainTask)
            /\ main' = [main EXCEPT !.pc = "return", !.saves = @ + 1]
    /\ UNCHANGED <<index_type, dropped, gvars, pc, req, vid, sid, hits, resp,
                   log>>

\* Ok(()) of main
main_return ==
    /\ main.pc = "return"
    /\ main' = [main EXCEPT !.pc = "exited", !.exit = "Ok"]
    /\ UNCHANGED <<hvars, nat, fvars, gvars, lock, pc, req, vid, sid, hits,
                   resp, log>>

\* a step of request task r; main is not involved
Request(r) ==
    \/ Accepting /\ add_review_begin(r) /\ UNCHANGED main
    \/ add_review_lock(r) /\ UNCHANGED main
    \/ add_review_add_vector(r) /\ UNCHANGED main
    \/ add_review_save(r) /\ UNCHANGED main
    \/ add_review_append(r) /\ UNCHANGED main
    \/ add_review_respond(r) /\ UNCHANGED main
    \/ Accepting /\ search_begin(r) /\ UNCHANGED main
    \/ search_lock(r) /\ UNCHANGED main
    \/ search_index(r) /\ UNCHANGED main
    \/ search_read_batch(r) /\ UNCHANGED main

Next ==
    \/ \E r \in Reqs : Request(r)
    \/ shutdown_signal
    \/ serve_returns
    \/ shutdown_lock
    \/ shutdown_save
    \/ main_return

Spec == Init /\ [][Next]_vars

----------------------------------------------------------------------------
(* The process over its restarts: main from its start to axum::serve        *)
(* (src/src/main.rs, lines 49-73), and the process being killed and started *)
(* again over the files the previous run left.                              *)

\* values of config.storage.index_path
ConfigPaths == {HardPath, "data/configured.index"}

\* main after VectorIndex::new, with config.storage.index_path,
\* config.index.vector_dim and the number of earlier runs
Starting(path, dim, n) ==
    [pc |-> "initialize", index_path |-> path, vector_dim |-> dim,
     restarts |-> n, saves |-> 0, exit |-> "running"]

\* the first start of the process: no archive, an empty metadata log
InitRestart ==
    /\ index_type \in IndexTypes
    /\ vector_dim \in Dims
    /\ index_ptr = NULL
    /\ vector_count = 0
    /\ dropped = FALSE
    /\ nat = [p \in Handles |-> EmptyNative]
    /\ archive = [f \in ConfigPaths |-> Absent]
    /\ staging = [f \in ConfigPaths |-> FALSE]
    /\ last = NoOutcome
    /\ hist = "fresh"
    /\ addLog = <<>>
    /\ trip = Untracked
    /\ IdleTasks
    /\ log = <<>>
    /\ main \in {Starting(path, vector_dim, 0) : path \in ConfigPaths}

\* `?` in main: the error is returned and the process ends
MainFails == [main EXCEPT !.pc = "exited", !.exit = "Err"]

\* vector_index.initialize()?
startup_initialize ==
    /\ main.pc = "initialize"
    /\ \E createOk \in BOOLEAN, paramOk \in BOOLEAN :
        LET i == initialize(createOk, paramOk)
        IN  /\ Commit(i)
            /\ main' = IF i.err = "" THEN [main EXCEPT !.pc = "load"]
                       ELSE MainFails
    /\ UNCHANGED <<index_type, dropped, gvars, lock, pc, req, vid, sid, hits,
                   resp, log>>

\* if config.storage.index_path.exists() { vector_index.load(..)? }
startup_load ==
    /\ main.pc = "load"
    /\ IF archive[main.index_path] = Absent
       THEN /\ main' = [main EXCEPT !.pc = "serving"]
            /\ UNCHANGED <<vector_dim, index_ptr, vector_count, nat, fvars>>
       ELSE \E ok \in BOOLEAN :
               LET l == load(main.index_path, ok)
               IN  /\ Commit(l)
                   /\ main' = IF l.err = ""
                              THEN [main EXCEPT !.pc = "serving"]
                              ELSE MainFails
    /\ UNCHANGED <<index_type, dropped, gvars, lock, pc, req, vid, sid, hits,
                   resp, log>>

\* the process is killed at any point and started again: its memory is
\* gone, the archives, staging directories and the metadata log stay
restart ==
    /\ main.restarts < MaxRestarts
    /\ index_ptr' = NULL
    /\ vector_count' = 0
    /\ vector_dim' = main.vector_dim
    /\ dropped' = FALSE
    /\ nat' = [p \in Handles |-> EmptyNative]
    /\ lock' = [writers |-> {}, readers |-> {}]
    /\ pc' = [r \in 1..NReq |-> "idle"]
    /\ req' = [r \in 1..NReq |-> NoRequest]
    /\ vid' = [r \in 1..NReq |-> -1]
    /\ sid' = [r \in 1..NReq |-> -1]
    /\ hits' = [r \in 1..NReq |-> <<>>]
    /\ resp' = [r \in 1..NReq |-> NoResponse]
    /\ main' = Starting(main.index_path, main.vector_dim, main.restarts + 1)
    /\ UNCHANGED <<index_type, fvars, gvars, log>>

NextRestart ==
    \/ \E r \in Reqs : Request(r)
    \/ shutdown_signal
    \/ serve_returns
    \/ shutdown_lock
    \/ shutdown_save
    \/ main_return
    \/ startup_initialize
    \/ startup_load
    \/ restart

SpecRestart == InitRestart /\ [][NextRestart]_vars

----------------------------------------------------------------------------
(* Properties of the running service (Spec).                                *)

IsAdd(r) == req[r].kind = "add"

IsSearch(r) == req[r].kind = "search"

InCritical(r) == pc[r] \in {"add_vector", "save"}

InSearch(r) == pc[r] = "search"

\* the vector a task submitted, and the vectors the shared index holds
Submitted(r) ==
    embed(prepare_review_text(req[r].review_title, req[r].review_body))

IndexVecs == nat[index_ptr].vecs

\* the task's add_vector succeeded and the task ended without a stored_id
FailedAfterAdd(r) == pc[r] = "done" /\ vid[r] >= 0 /\ sid[r] < 0

\* C1: while a request is inside add_vector or save no other request is
\* inside add_vector, save or search; a request inside add_vector or save
\* is the one holder of the write guard (so the guard acquired for
\* add_vector is still held in save), and a request inside search holds a
\* read guard.
C1_MutualExclusion ==
    /\ \A r1 \in Reqs, r2 \in Reqs :
          r1 # r2 /\ InCritical(r1) => ~InCritical(r2) /\ ~InSearch(r2)
    /\ \A r \in Reqs : InCritical(r) => lock = [writers |-> {r}, readers |-> {}]
    /\ \A r \in Reqs : InSearch(r) => r \in lock.readers /\ lock.writers = {}

\* a writer is inside save while another request waits for the lock
C1_Witness ==
    \E r1 \in Reqs, r2 \in Reqs :
        /\ pc[r1] = "save"
        /\ pc[r2] \in {"write_lock", "read_lock"}

\* two searches are inside search at once
C1_SharedReaders ==
    \E r1 \in Reqs, r2 \in Reqs : r1 # r2 /\ InSearch(r1) /\ InSearch(r2)

\* C2: as long as no request has failed after its add_vector, a request
\* whose stored_id differs from its vector_id has been overtaken: another
\* request took its vector ID on one side of it and its log line on the
\* other side (or has not appended yet); and the log line at stored_id is
\* always the request's own record.
C2_MismatchOnlyByRace ==
    /\ \A r \in Reqs : sid[r] >= 0 =>
          /\ sid[r] < count_lines(log)
          /\ log[sid[r] + 1] = ReviewMetadata(r, req[r])
    /\ (\A r \in Reqs : ~FailedAfterAdd(r)) =>
          \A r \in Reqs : sid[r] >= 0 /\ vid[r] # sid[r] =>
              \E r2 \in Reqs \ {r} :
                  /\ vid[r2] >= 0
                  /\ \/ vid[r2] < vid[r] /\ (sid[r2] < 0 \/ sid[r2] > sid[r])
                     \/ vid[r2] > vid[r] /\ sid[r2] >= 0 /\ sid[r2] < sid[r]

\* a request has completed with success and vector_id # stored_id, nothing
\* has failed, and the metadata record at its vector ID is another request's
C2_Witness ==
    \E r \in Reqs :
        /\ pc[r] = "done" /\ IsAdd(r) /\ resp[r].code = 200
        /\ vid[r] # sid[r]
        /\ \A r2 \in Reqs : ~FailedAfterAdd(r2)
        /\ vid[r] < count_lines(log)
        /\ log[vid[r] + 1].task # r

\* C3: once a request has a stored_id different from its vector_id, its
\* metadata line stays in the log and its vector stays in the index, and
\* when it has returned the response is a success carrying vector_id.
C3_MismatchNotRolledBack ==
    \A r \in Reqs :
        IsAdd(r) /\ sid[r] >= 0 /\ vid[r] # sid[r] =>
            /\ pc[r] \in {"respond", "done"}
            /\ log[sid[r] + 1] = ReviewMetadata(r, req[r])
            /\ vid[r] < Len(IndexVecs)
            /\ IndexVecs[vid[r] + 1] = Submitted(r)
            /\ pc[r] = "done" =>
                  /\ resp[r].code = 200
                  /\ resp[r].status = "success"
                  /\ resp[r].vector_id = vid[r]
                  /\ resp[r].mismatch_logged

\* a request has returned after detecting the mismatch
C3_Witness ==
    \E r \in Reqs :
        /\ pc[r] = "done" /\ IsAdd(r)
        /\ sid[r] >= 0 /\ vid[r] # sid[r]
        /\ resp[r].vector_id # sid[r]

\* C4: a request that ends after its add_vector succeeded and without a
\* metadata line has returned a server error; its vector is still in the
\* index, no log line is its record, and in every state from then on the
\* index holds more vectors than the log holds lines (cached count and
\* native count alike).
C4_OrphanVectorStays ==
    \A r \in Reqs :
        FailedAfterAdd(r) =>
            /\ resp[r].code = 500
            /\ resp[r].message \in {"Save index failed", "Store metadata failed"}
            /\ vid[r] < Len(IndexVecs)
            /\ IndexVecs[vid[r] + 1] = Submitted(r)
            /\ \A i \in 1..Len(log) : log[i].task # r
            /\ vector_count > count_lines(log)
            /\ Len(IndexVecs) > count_lines(log)

\* every request has ended, one of them failed after its add_vector and a
\* later one succeeded
C4_Witness ==
    \E r \in Reqs, r2 \in Reqs :
        /\ FailedAfterAdd(r)
        /\ \A r3 \in Reqs : pc[r3] = "done"
        /\ IsAdd(r2) /\ resp[r2].code = 200 /\ vid[r2] > vid[r]

\* C5: a request at its metadata append no longer holds the write guard,
\* and a search that reaches read_batch returns a server error exactly when
\* one of the IDs it got from the index has no line in the log at that
\* moment.
C5_AppendOutsideLock ==
    [][/\ \A r \in Reqs : pc[r] = "append" => r \notin lock.writers
       /\ \A r \in Reqs :
            pc[r] = "read_batch" /\ pc'[r] = "done" =>
                /\ resp'[r].code \in {200, 500}
                /\ resp'[r].code = 500 <=>
                      \E i \in 1..Len(hits[r]) :
                          hits[r][i].vector_id >= count_lines(log)]_vars

\* a search has failed in read_batch on the ID of a vector that is in the
\* saved archive while its request has not appended its metadata yet
C5_Witness ==
    \E s \in Reqs, a \in Reqs :
        /\ pc[s] = "done" /\ IsSearch(s)
        /\ resp[s] = Internal("Metadata read failed")
        /\ pc[a] = "append"
        /\ \E i \in 1..Len(hits[s]) : hits[s][i].vector_id = vid[a]
        /\ archive[HardPath].kind = "index"
        /\ vid[a] < Len(archive[HardPath].vecs)
        /\ vid[a] >= count_lines(log)

----------------------------------------------------------------------------
(* Properties of the handle (SpecHandle).                                   *)

LiveHandles == {p \in Handles : nat[p].st = "live"}

LoadErrors == {"NotFound", "ExtractFailed", "LoadFailed"}

\* C6: on a freshly initialized handle with no load, build or second
\* initialize so far, the successful add_vector calls have returned
\* 0, 1, ..., N-1 in that order and vector_count is N.
C6_SequentialIds ==
    hist = "fresh" =>
        /\ addLog = [i \in 1..Len(addLog) |-> i - 1]
        /\ vector_count = Len(addLog)

\* MaxVectors successful adds in a row on a fresh handle
C6_Witness ==
    /\ hist = "fresh"
    /\ last.op = "add_vector" /\ last.err = ""
    /\ Len(addLog) = MaxVectors

\* C7: in every reachable state of the handle, initialized or not, add_vector
\* and search given a vector of another length than vector_dim return the
\* dimension-mismatch error, make no native call and leave vector_count,
\* vector_dim, index_ptr and the native engine as they are.
C7_DimensionMismatch ==
    \A v \in Vectors, k \in 0..MaxK, ok \in BOOLEAN :
        Len(v) # vector_dim =>
            \A c \in {add_vector(v, ok), search(v, k, ok)} :
                /\ c.err = "DimensionMismatch"
                /\ c.calls = 0
                /\ c.count = vector_count
                /\ c.dim = vector_dim
                /\ c.ptr = index_ptr
                /\ c.nat = nat

\* add_vector has just been refused for its dimension on a handle that is
\* not initialized
C7_Witness ==
    /\ last.op = "add_vector" /\ last.err = "DimensionMismatch"
    /\ index_ptr = NULL
    /\ ~dropped

\* C8: in every reachable state of a handle not yet dropped a load that fails (archive missing,
\* extraction failure, native load returning NULL) leaves index_ptr, the
\* native engine, vector_count and vector_dim as they are; a load that
\* succeeds leaves the handle with a live index other than the old one, the
\* old one released and no other handle touched; and an initialized handle
\* always points at a live index.
C8_FailedLoadKeepsState ==
    /\ \A path \in Paths, ok \in BOOLEAN :
          LET l == load(path, ok)
          IN  ~dropped =>
              /\ l.err \in LoadErrors \cup {""}
              /\ l.err \in LoadErrors =>
                    /\ l.ptr = index_ptr
                    /\ l.nat = nat
                    /\ l.count = vector_count
                    /\ l.dim = vector_dim
              /\ l.err = "" =>
                    /\ Live(l.nat, l.ptr)
                    /\ \A p \in Handles \ {l.ptr, index_ptr} : l.nat[p] = nat[p]
                    /\ index_ptr # NULL /\ Live(nat, index_ptr) =>
                          l.ptr # index_ptr /\ l.nat[index_ptr] = EmptyNative
    /\ ~dropped /\ index_ptr # NULL => Live(nat, index_ptr)

\* the native load has just failed on a handle that holds vectors, and the
\* handle still points at its live index
C8_Witness ==
    /\ last.op = "load" /\ last.err = "LoadFailed"
    /\ index_ptr # NULL
    /\ Live(nat, index_ptr)
    /\ vector_count > 0
    /\ Len(nat[index_ptr].vecs) = vector_count

\* C9: after a load that got past the existence check, successful or not,
\* the staging directory of the archive path does not exist.
C9_StagingRemovedAfterLoad ==
    last.op = "load" /\ last.err # "NotFound" =>
        \A path \in Paths : ~staging[path]

\* C10: no native handle is destroyed twice or used after destruction, the
\* live native handles are at most the one the VectorIndex points at, and once
\* the VectorIndex is dropped no native handle is left live.
C10_EachHandleDestroyedOnce ==
    /\ \A p \in Handles : nat[p].st # "misused"
    /\ LiveHandles \subseteq {index_ptr}
    /\ dropped => LiveHandles = {}

\* C11: while a handle that was fresh, initialized and empty holds what it
\* loaded from the archive a handle with only successful adds saved, its
\* vector_count() is the saving handle's vector_count() before the save and
\* every probe query gets from it the IDs it got from the saving handle.
C11_RoundTrip ==
    trip.stage = "loaded" =>
        /\ vector_count = trip.count
        /\ \A q \in Vectors : Probe(q) = trip.probes[q]

\* the round trip of a handle holding MaxVectors vectors has just completed
\* and a probe query gets them all back
C11_Witness ==
    /\ trip.stage = "loaded"
    /\ last.op = "load" /\ last.err = ""
    /\ trip.count = MaxVectors
    /\ \E q \in Vectors : Len(trip.probes[q].ids) = MaxVectors

BuildInputs == SeqsUpTo(Vectors, MaxVectors)

Initialized == ~dropped /\ index_ptr # NULL

\* C12: on an initialized handle every build_from_vectors(vs) that returns
\* success, the empty list included, leaves vector_count equal to Len(vs),
\* whatever the count was before.
C12_BuildOverwritesCount ==
    \A vs \in BuildInputs, ok \in BOOLEAN :
        LET b == build_from_vectors(vs, ok)
        IN  Initialized /\ b.err = "" => b.count = Len(vs)

\* C13: in every state of the handle, build_from_vectors given a list with
\* a vector of another length than vector_dim fails, with the dimension
\* error when the handle is initialized, makes no native call and leaves
\* vector_count, vector_dim, index_ptr and the native engine as they are.
C13_BuildValidatesFirst ==
    \A vs \in BuildInputs, ok \in BOOLEAN :
        LET b == build_from_vectors(vs, ok)
        IN  ~dropped /\ (\E i \in 1..Len(vs) : Len(vs[i]) # vector_dim) =>
                /\ b.err = IF index_ptr = NULL THEN "NotInitialized"
                           ELSE "DimensionMismatch"
                /\ b.calls = 0
                /\ b.count = vector_count
                /\ b.dim = vector_dim
                /\ b.ptr = index_ptr
                /\ b.nat = nat

\* build_from_vectors has just been refused for a dimension on an
\* initialized handle whose index holds vectors, and the index still holds
\* them
C13_Witness ==
    /\ last.op = "build_from_vectors" /\ last.err = "DimensionMismatch"
    /\ Initialized
    /\ Live(nat, index_ptr)
    /\ Len(nat[index_ptr].vecs) = MaxVectors
    /\ vector_count = MaxVectors

\* C15: save on an initialized handle either fails in the native save, and
\* then the staging directory is gone and no archive file is modified, or
\* succeeds, and then the archive at the target path is the snapshot of the
\* index, the staging directory is gone and no other file is modified; save
\* on a handle without an index fails with NotInitialized, makes no native
\* call and leaves the staging directory and the archive files as they are.
C15_SaveOutcomes ==
    \A path \in Paths, ok \in BOOLEAN :
        LET s == save(path, ok)
        IN  /\ ~dropped /\ index_ptr = NULL =>
                  /\ s.err = "NotInitialized"
                  /\ s.calls = 0
                  /\ s.staging = staging
                  /\ s.archive = archive
            /\ Initialized =>
                  /\ s.err = IF ok THEN "" ELSE "SaveFailed"
                  /\ s.err = "SaveFailed" =>
                        /\ ~s.staging[path]
                        /\ s.archive = archive
                  /\ s.err = "" =>
                        /\ s.archive[path] =
                              [kind |-> "index", dim |-> nat[index_ptr].dim,
                               vecs |-> nat[index_ptr].vecs]
                        /\ ~s.staging[path]
                        /\ \A f \in Paths \ {path} : s.archive[f] = archive[f]

\* the native save has just failed, and the archive written earlier, which
\* differs from what the index holds now, is still in place
C15_Witness ==
    /\ last.op = "save" /\ last.err = "SaveFailed"
    /\ Initialized
    /\ archive[HardPath].kind = "index"
    /\ archive[HardPath].vecs # nat[index_ptr].vecs
    /\ ~staging[HardPath]

\* C16: on a handle without an index, add_vector and search with a vector
\* of the right length and build_from_vectors with a non-empty list of such
\* vectors fail with NotInitialized, make no native call and leave
\* vector_count and the native engine as they are.
C16_NotInitialized ==
    ~dropped /\ index_ptr = NULL =>
        \A v \in Vectors, k \in 0..MaxK, ok \in BOOLEAN, vs \in BuildInputs :
            LET calls ==
                    (IF Len(v) = vector_dim
                     THEN {add_vector(v, ok), search(v, k, ok)} ELSE {})
                    \cup
                    (IF vs # <<>> /\ \A i \in 1..Len(vs) : Len(vs[i]) = vector_dim
                     THEN {build_from_vectors(vs, ok)} ELSE {})
            IN  \A c \in calls :
                    /\ c.err = "NotInitialized"
                    /\ c.calls = 0
                    /\ c.count = vector_count
                    /\ c.ptr = NULL
                    /\ c.nat = nat

\* add_vector has just been refused on a handle that lost its index to a
\* failed initialize after vectors had been added
C16_Witness ==
    /\ last.op = "add_vector" /\ last.err = "NotInitialized"
    /\ ~dropped
    /\ index_ptr = NULL
    /\ vector_count > 0

AddErrors == {"DimensionMismatch", "NotInitialized", "AddFailed"}

\* C17: a successful add_vector returns the ID the native engine assigned
\* and leaves vector_count one higher; a failed one (wrong dimension, no
\* index, negative ID from the engine) returns no ID and leaves vector_count
\* as it is.
C17_AddVectorCount ==
    \A v \in Vectors, ok \in BOOLEAN :
        LET a == add_vector(v, ok)
        IN  ~dropped =>
            /\ a.err \in AddErrors \cup {""}
            /\ a.err = "DimensionMismatch" <=> Len(v) # vector_dim
            /\ a.err = "NotInitialized" <=>
                    Len(v) = vector_dim /\ index_ptr = NULL
            /\ a.err \in AddErrors => a.count = vector_count /\ a.id = -1
            /\ a.err \in {"", "AddFailed"} =>
                    LET n == spfresh_add_vector(nat, index_ptr, v, ok)
                    IN  /\ a.nat = n.nat
                        /\ a.err = "AddFailed" <=> n.ret < 0
                        /\ a.err = "" =>
                              /\ a.id = n.ret
                              /\ a.count = vector_count + 1

\* add_vector has just succeeded on a handle whose cached count differs from
\* the number of vectors its index holds
C17_Witness ==
    /\ last.op = "add_vector" /\ last.err = ""
    /\ Initialized
    /\ vector_count # Len(nat[index_ptr].vecs)

\* C18: a successful load leaves vector_count and vector_dim equal to the
\* count and the dimension of the loaded native index, which are those of
\* the archive, whatever dimension the handle was configured with (a
\* different one is overwritten with a warning); an initialized handle's
\* vector_dim is always its index's dimension, and after a successful load
\* add_vector and search refuse exactly the vectors of another length than
\* the loaded dimension.
C18_LoadRefreshes ==
    /\ \A path \in Paths, ok \in BOOLEAN :
          LET l == load(path, ok)
          IN  ~dropped /\ l.err = "" =>
                /\ l.count = spfresh_get_num_vectors(l.nat, l.ptr)
                /\ l.count = Len(archive[path].vecs)
                /\ l.dim = spfresh_get_dimension(l.nat, l.ptr)
                /\ l.dim = archive[path].dim
                /\ l.warn <=> archive[path].dim # vector_dim
    /\ Initialized => vector_dim = spfresh_get_dimension(nat, index_ptr)
    /\ ~dropped /\ last.op = "load" /\ last.err = "" =>
          \A v \in Vectors, k \in 0..MaxK :
              /\ add_vector(v, TRUE).err = "DimensionMismatch"
                    <=> Len(v) # nat[index_ptr].dim
              /\ search(v, k, TRUE).err = "DimensionMismatch"
                    <=> Len(v) # nat[index_ptr].dim

\* a load has just replaced the configured dimension, and the handle's
\* count is that of the MaxVectors vectors it loaded
C18_Witness ==
    /\ last.op = "load" /\ last.err = "" /\ last.warn
    /\ Initialized
    /\ vector_count = MaxVectors
    /\ Len(nat[index_ptr].vecs) = MaxVectors

\* C19: initialize fails, with the initialization error, exactly when the
\* native allocation returns NULL, and then the handle has no index; when
\* the allocation returns a handle, initialize succeeds and the handle holds
\* that live index whether or not the set_parameter calls fail (a failure
\* only warns); vector_count and vector_dim are left as they are.
C19_InitializeOutcome ==
    \A createOk \in BOOLEAN, paramOk \in BOOLEAN :
        LET i == initialize(createOk, paramOk)
            c == spfresh_create_index(nat, vector_dim, createOk)
        IN  ~dropped =>
            /\ i.err \in {"", "InitFailed"}
            /\ i.err = "InitFailed" <=> c.ptr = NULL
            /\ i.err = "InitFailed" => i.ptr = NULL
            /\ c.ptr # NULL =>
                  /\ i.err = ""
                  /\ i.ptr = c.ptr
                  /\ Live(i.nat, i.ptr)
                  /\ i.warn <=> ~paramOk
            /\ i.count = vector_count
            /\ i.dim = vector_dim

\* initialize has just succeeded although a set_parameter call failed
C19_Witness ==
    /\ last.op = "initialize" /\ last.err = "" /\ last.warn
    /\ Initialized
    /\ Live(nat, index_ptr)

----------------------------------------------------------------------------
(* Shutdown and the metadata log (Spec).                                    *)

\* C14: the final save at shutdown runs while main holds the index lock in
\* exclusive mode, and when the process has exited the save has run exactly
\* once and main has returned Ok whatever the save returned.
C14_ShutdownSaveExclusive ==
    /\ main.pc = "save" => lock = [writers |-> {MainTask}, readers |-> {}]
    /\ main.pc = "exited" => main.saves = 1 /\ main.exit = "Ok"

\* what does hold at shutdown: the save runs under a read guard while no
\* request is in flight, exactly once, and its failure is not escalated
C14_SharedGuardNoRequest ==
    /\ main.pc = "save" =>
          /\ lock = [writers |-> {}, readers |-> {MainTask}]
          /\ \A r \in Reqs : pc[r] \in {"idle", "done"}
    /\ main.pc \in {"serving", "draining", "read_lock", "save"} =>
          main.saves = 0 /\ main.exit = "running"
    /\ main.pc = "return" => main.saves = 1 /\ main.exit = "running"
    /\ main.pc = "exited" => main.saves = 1 /\ main.exit = "Ok"

\* the process has exited normally after a shutdown save that failed: the
\* index holds a vector the archive does not
C14_FailedSaveExit ==
    /\ main.pc = "exited"
    /\ Len(IndexVecs) > Len(archive[main.index_path].vecs)

Appended == {r \in Reqs : sid[r] >= 0}

\* C20: an append returns the number of lines the log held just before it
\* and adds exactly its record as the last line, and a failed append leaves
\* the log as it is; under every interleaving of the requests the IDs the
\* appends returned are pairwise distinct, are exactly 0 .. count_lines-1,
\* and line i of the log is the record of the request that got ID i.
C20_AppendOrdinals ==
    /\ \A r \in Reqs : IsAdd(r) =>
          LET m == ReviewMetadata(r, req[r])
              a == append(log, m, TRUE)
          IN  /\ a.err = ""
              /\ a.id = count_lines(log)
              /\ count_lines(a.log) = count_lines(log) + 1
              /\ a.log = Append(log, m)
              /\ append(log, m, FALSE).err # ""
              /\ append(log, m, FALSE).log = log
    /\ \A r1 \in Appended, r2 \in Appended : r1 # r2 => sid[r1] # sid[r2]
    /\ {sid[r] : r \in Appended} = 0..(count_lines(log) - 1)
    /\ \A r \in Appended : log[sid[r] + 1] = ReviewMetadata(r, req[r])

\* two requests were at their append at the same time and appended in the
\* opposite order of their add_vector calls
C20_Witness ==
    \E r1 \in Reqs, r2 \in Reqs :
        /\ vid[r1] = 0 /\ sid[r1] = 1
        /\ vid[r2] = 1 /\ sid[r2] = 0
        /\ count_lines(log) = 2

----------------------------------------------------------------------------
(* Properties of the read and write paths over restarts (SpecRestart) and   *)
(* of the request handlers (Spec).                                          *)

\* the vector IDs a search task passes to read_batch
VectorIds(r) == [i \in 1..Len(hits[r]) |-> hits[r][i].vector_id]

\* C21: read_batch(ids) returns exactly Len(ids) records, the i-th being the
\* line at ordinal ids[i] (order and duplicates kept), or fails with
\* RecordNotFound exactly when some id is >= count_lines(); read_batch of no
\* IDs is empty; and the read_batch step of a search request answers with
\* that outcome and leaves the log as it was.
C21_ReadBatch ==
    [][/\ \A ids \in SeqsUpTo(0..count_lines(log), MaxK) :
            LET b == read_batch(log, ids)
            IN  /\ b.err = "RecordNotFound"
                      <=> \E i \in 1..Len(ids) : ids[i] >= count_lines(log)
                /\ b.err # "RecordNotFound" =>
                      /\ b.err = ""
                      /\ Len(b.out) = Len(ids)
                      /\ \A i \in 1..Len(ids) : b.out[i] = log[ids[i] + 1]
                /\ ids = <<>> => b.err = "" /\ b.out = <<>>
       /\ \A r \in Reqs :
            pc[r] = "read_batch" /\ pc'[r] = "done" =>
                /\ log' = log
                /\ IF \E i \in 1..Len(hits[r]) :
                          VectorIds(r)[i] >= count_lines(log)
                   THEN resp'[r] = Internal("Metadata read failed")
                   ELSE /\ resp'[r].code = 200
                        /\ Len(resp'[r].results) = Len(hits[r])
                        /\ \A i \in 1..Len(hits[r]) :
                              resp'[r].results[i].meta
                                  = log[VectorIds(r)[i] + 1]]_vars

\* a search answered with two records read in an order that is not the
\* order of the log
C21_Witness ==
    \E r \in Reqs :
        /\ IsSearch(r)
        /\ pc[r] = "done"
        /\ resp[r].code = 200
        /\ VectorIds(r) = <<1, 0>>
        /\ log[1] # log[2]
        /\ resp[r].results[1].meta = log[2]
        /\ resp[r].results[2].meta = log[1]

\* C22: an add-review request that fails validation (blank title, body or
\* product identifier, rating outside 1..5) is answered 400 in the step that
\* receives it, whatever the embedding service would do; that step leaves
\* the lock, the handle, the native index, the archive and the metadata log
\* as they were, and the task never holds the lock.
C22_InvalidAddRejected ==
    [][\A r \in Reqs :
        req'[r].kind = "add" /\ validate_add(req'[r]) # "" =>
            /\ pc'[r] = "done"
            /\ resp'[r] = BadRequest(validate_add(req'[r]))
            /\ vid'[r] = -1 /\ sid'[r] = -1
            /\ r \notin lock'.writers \cup lock'.readers
            /\ pc[r] = "idle" =>
                  UNCHANGED <<lock, hvars, nat, fvars, log>>]_vars

\* a request with a whitespace-only title was rejected while the index
\* already held a vector
C22_Witness ==
    \E r \in Reqs :
        /\ IsAdd(r)
        /\ req[r].review_title = " "
        /\ pc[r] = "done"
        /\ resp[r].code = 400
        /\ vector_count = 1

\* C23: a search answered 200 carries at most top_k items, one per hit of
\* the index search and in the order of the hits; item i has the vector_id
\* of hit i and the metadata line whose ordinal is that vector_id, and
\* total_found is the number of items.  A task about to call read_batch
\* no longer holds the index lock.
C23_SearchResponse ==
    \A r \in Reqs :
        /\ pc[r] = "read_batch" => r \notin lock.readers \cup lock.writers
        /\ IsSearch(r) /\ pc[r] = "done" /\ resp[r].code = 200 =>
              /\ resp[r].total_found = Len(resp[r].results)
              /\ Len(resp[r].results) <= req[r].top_k
              /\ Len(resp[r].results) = Len(hits[r])
              /\ \A i \in 1..Len(hits[r]) :
                    /\ resp[r].results[i].vector_id = hits[r][i].vector_id
                    /\ resp[r].results[i].similarity_score
                          = 1 - hits[r][i].distance
                    /\ resp[r].results[i].meta
                          = log[resp[r].results[i].vector_id + 1]

\* a search for two neighbours answered with vector 1 ranked before
\* vector 0, each with its own metadata line
C23_Witness ==
    \E r \in Reqs :
        /\ IsSearch(r)
        /\ pc[r] = "done"
        /\ resp[r].code = 200
        /\ req[r].top_k = 2
        /\ resp[r].total_found = 2
        /\ resp[r].results[1].vector_id = 1
        /\ resp[r].results[2].vector_id = 0
        /\ resp[r].results[1].similarity_score
              > resp[r].results[2].similarity_score
        /\ resp[r].results[1].meta.review_title = "b"
        /\ resp[r].results[2].meta.review_title = "a"

----------------------------------------------------------------------------
(* The service when a client sends its add-review requests one at a time.   *)

\* every other add-review request has been answered
OneAtATime(r) == \A o \in Reqs \ {r} : IsAdd(o) => pc[o] = "done"

\* a step of request task r: an add-review request arrives only when the
\* previous one has been answered; search requests arrive at any time
RequestSequential(r) ==
    \/ Accepting /\ OneAtATime(r) /\ add_review_begin(r) /\ UNCHANGED main
    \/ add_review_lock(r) /\ UNCHANGED main
    \/ add_review_add_vector(r) /\ UNCHANGED main
    \/ add_review_save(r) /\ UNCHANGED main
    \/ add_review_append(r) /\ UNCHANGED main
    \/ add_review_respond(r) /\ UNCHANGED main
    \/ Accepting /\ search_begin(r) /\ UNCHANGED main
    \/ search_lock(r) /\ UNCHANGED main
    \/ search_index(r) /\ UNCHANGED main
    \/ search_read_batch(r) /\ UNCHANGED main

NextSequential ==
    \/ \E r \in Reqs : RequestSequential(r)
    \/ shutdown_signal
    \/ serve_returns
    \/ shutdown_lock
    \/ shutdown_save
    \/ main_return

SpecSequential == Init /\ [][NextSequential]_vars

\* no add-review request is in flight
BetweenAdds == \A r \in Reqs : IsAdd(r) => pc[r] = "done"

\* C24: from an empty index and an empty log, with add-review requests
\* arriving one at a time and none failing after its add_vector, every
\* request that got both IDs has vector_id = stored_id, and whenever no
\* add-review request is in flight the handle's count, the native index
\* and the log have the same length, and line N of the log is the record
\* of the request whose vector is vector N, that vector being the
\* embedding of the record's text.
C24_SequentialAddsAgree ==
    (\A r \in Reqs : ~FailedAfterAdd(r)) =>
        /\ \A r \in Reqs : sid[r] >= 0 => vid[r] = sid[r]
        /\ BetweenAdds =>
              /\ vector_count = count_lines(log)
              /\ Len(IndexVecs) = count_lines(log)
              /\ \A n \in 1..count_lines(log) :
                    /\ vid[log[n].task] = n - 1
                    /\ log[n] = ReviewMetadata(log[n].task, req[log[n].task])
                    /\ IndexVecs[n] = Submitted(log[n].task)

\* two add-review requests answered one after the other, with different
\* titles
C24_Witness ==
    /\ BetweenAdds
    /\ \A r \in Reqs : IsAdd(r) /\ resp[r].code = 200
    /\ count_lines(log) = 2
    /\ log[1].review_title # log[2].review_title
    /\ vector_count = 2

----------------------------------------------------------------------------
(* Durability of the write path across restarts (SpecRestart).              *)

\* the archive at path is a snapshot that holds the vector of request r
\* under the ID the request was given
Holds(path, r) ==
    /\ archive[path].kind = "index"
    /\ vid[r] < Len(archive[path].vecs)
    /\ archive[path].vecs[vid[r] + 1] = Submitted(r)

\* an add-review request answered with success
Succeeded(r) == IsAdd(r) /\ pc[r] = "done" /\ resp[r].code = 200

\* C25: once an add-review request has been answered with success, the
\* archive at the configured index path, which is the file the next start
\* of the process loads, is a snapshot that holds the request's vector.
C25_AddIsDurable ==
    \A r \in Reqs : Succeeded(r) => Holds(main.index_path, r)

\* the write path saves to "data/reviews.index": the snapshot there holds
\* the vector of every request answered with success
C25_DurableAtHardPath ==
    \A r \in Reqs : Succeeded(r) => Holds(HardPath, r)

\* the process was started again without a shutdown save and serves with
\* an empty index although the log has the record of an answered request
C25_LostAfterRestart ==
    /\ main.pc = "serving"
    /\ main.restarts = 1
    /\ archive[main.index_path] = Absent
    /\ count_lines(log) > 0
    /\ vector_count = 0

----------------------------------------------------------------------------
(* Frame of the read-only calls (Spec).                                     *)

\* search and save, with every input and either native outcome, return
\* with the handle's pointer, dimension and count as they were, and search
\* leaves the files alone
ReadOnlyCalls ==
    \A ok \in BOOLEAN :
        /\ \A q \in Vectors, k \in 0..MaxK :
              LET s == search(q, k, ok)
              IN  /\ <<s.ptr, s.dim, s.count>>
                        = <<index_ptr, vector_dim, vector_count>>
                  /\ <<s.archive, s.staging>> = <<archive, staging>>
        /\ \A path \in DOMAIN archive :
              LET v == save(path, ok)
              IN  <<v.ptr, v.dim, v.count>>
                      = <<index_ptr, vector_dim, vector_count>>

\* task r takes a step of a search request
SearchStep(r) == main' = main /\ pc'[r] # pc[r] /\ req'[r].kind = "search"

\* a save returns: the one of an add-review request or the shutdown save
SaveStep ==
    \/ \E r \in Reqs : main' = main /\ pc[r] = "save" /\ pc'[r] # "save"
    \/ main.pc = "save" /\ main'.pc = "return"

\* C26: search and save are read-only on the handle: whatever the input and
\* the outcome, vector_count, vector_dim and the native pointer are after
\* the call what they were before it; no step of a search request changes
\* the handle, the metadata log or the archive, and no save of the
\* service changes the handle.
C26_SearchSaveReadOnly ==
    [][/\ ReadOnlyCalls
       /\ \A r \in Reqs :
            SearchStep(r) =>
                UNCHANGED <<index_ptr, vector_dim, vector_count, log, archive>>
       /\ SaveStep => UNCHANGED <<index_ptr, vector_dim, vector_count>>]_vars

\* a search failed in the engine and the shutdown save has returned, and
\* the index, the archive and the log still hold the one review added
C26_Witness ==
    /\ \E r \in Reqs :
          /\ IsSearch(r)
          /\ pc[r] = "done"
          /\ resp[r] = Internal("Search failed")
    /\ main.pc = "return"
    /\ vector_count = 1
    /\ Len(archive[HardPath].vecs) = 1
    /\ count_lines(log) = 1

----------------------------------------------------------------------------
(* Order of the write path and release of the write guard (Spec).           *)

\* C27: a request reaches save only from a successful add_vector, with its
\* vector_id set and as the one holder of the write guard, which is not
\* given up in between; a failed add_vector answers 500 and the request
\* never saves or appends (the archive and the log are as before and the
\* request stays answered); and a request that has been answered, on any
\* path, is not in the lock, which only tasks inside add_vector or save
\* hold for writing.
C27_SaveAfterAddSameGuard ==
    [][\A r \in Reqs :
        /\ pc'[r] = "save" =>
              /\ pc[r] \in {"add_vector", "save"}
              /\ vid'[r] >= 0
              /\ lock'.writers = {r} /\ lock'.readers = {}
              /\ pc[r] = "add_vector" => lock' = lock
        /\ pc[r] = "add_vector" /\ pc'[r] = "done" =>
              /\ resp'[r] = Internal("Add vector failed")
              /\ vid'[r] = -1
              /\ UNCHANGED <<archive, log>>
        /\ pc[r] = "done" => pc'[r] = "done" /\ resp'[r] = resp[r]
        /\ pc'[r] = "done" => r \notin lock'.writers \cup lock'.readers
        /\ r \in lock'.writers => pc'[r] \in {"add_vector", "save"}]_vars

\* one request failed in add_vector, one failed in save, neither is in the
\* lock and the lock is free
C27_Witness ==
    /\ \E r \in Reqs : resp[r] = Internal("Add vector failed")
    /\ \E r \in Reqs : resp[r] = Internal("Save index failed")
    /\ lock = [writers |-> {}, readers |-> {}]
    /\ count_lines(log) = 0

\* a request that failed in add_vector did not block the next one, which
\* was answered with success
C27_LaterRequestServed ==
    /\ \E r \in Reqs : resp[r] = Internal("Add vector failed")
    /\ \E r \in Reqs : IsAdd(r) /\ pc[r] = "done" /\ resp[r].code = 200

\* the runtime keeps polling every task that can run
SpecLive == Spec /\ \A r \in Reqs : WF_vars(Request(r))

\* a request waiting for the write guard is eventually answered,
\* whichever way the requests before it ended
C27_NotBlocked ==
    \A r \in Reqs : (pc[r] = "write_lock") ~> (pc[r] = "done")

====
